---- MODULE Spec2Model ----
(***************************************************************************)
(* Day 18 "Duet" (src/solvers/day18.py): the dual-instance run.            *)
(*                                                                         *)
(* DuetCoordinator.run starts two OS processes, each executing             *)
(* DuetVM.execute on the same program.  The processes share two            *)
(* multiprocessing queues (one inbound queue per instance) and one         *)
(* semaphore (the permit).  Time is abstracted: a timed wait               *)
(* (lock.acquire(timeout=0.1), queue.get(timeout=2)) may give up at any    *)
(* moment at which the thing waited for is not available.  The queues are  *)
(* unbounded: the capacity of the operating system pipe under a            *)
(* multiprocessing queue is not modelled.                                  *)
(***************************************************************************)
EXTENDS Integers, Sequences, FiniteSets, TLC

VARIABLES
    program,    \* the parsed program handed to run(); never modified
    regs,       \* regs[i]: register dict of instance i (a partial function)
    ip,         \* ip[i]: instruction pointer of instance i
    sent,       \* sent[i]: list of values instance i has sent
    received,   \* received[i]: list of values instance i has received
    queue,      \* queue[i]: values readable from instance i's inbound queue
    feeder,     \* feeder[i]: values instance i has put() that its queue
                \*   feeder thread has not yet written to the partner's queue
    lock,       \* count of the shared semaphore
    pc,         \* pc[i]: where the process of instance i is
    pipe,       \* pipe[i]: what instance i wrote to its result pipe
    vm,         \* vm[i]: the coordinator's (parent process) copy of instance i
    cpc,        \* where the coordinator (part2 / run) is
    result,     \* the value part2 returned
    nsnd,       \* nsnd[i]: number of snd instructions instance i has executed
    bad,        \* the single-instance machine of part 1 (BadDuetVM)
    parser,     \* BadDuetVM.parse: the input lines and what is parsed so far
    prev,       \* outcome of an earlier dual run on the same program, if any
    firewall,   \* day 13: the Firewall object (its layers and num_layers)
    day13,      \* day 13: where part2 is, or the last method call's result
    banks,      \* day 6: the array of memory banks
    day6        \* day 6: where part1 / part2 is, with its locals

\* the state of the dual run
dualVars == <<regs, ip, sent, received, queue, feeder, lock, pc, pipe, vm,
              cpc, result, nsnd>>

\* the state of the solvers of day 13 and day 6
otherDays == <<firewall, day13, banks, day6>>

vars == <<program, dualVars, bad, parser, prev, otherDays>>

VM == {0, 1}

partner(i) == 1 - i

----------------------------------------------------------------------------
(* Operands and instructions.  parse keeps operands as strings; fet tells  *)
(* an integer literal from a register name.                                *)

Lit(n) == [isReg |-> FALSE, name |-> "", val |-> n]
Reg(r) == [isReg |-> TRUE, name |-> r, val |-> 0]

I1(o, x) == [op |-> o, args |-> <<x>>]
I2(o, x, y) == [op |-> o, args |-> <<x, y>>]

\* Largest length of the generated programs.
MaxLen == 3

\* The instructions the generated programs are built from.
Alphabet ==
    { I1("snd", Lit(1)), I1("snd", Reg("a")), I1("rcv", Reg("a")),
      I2("add", Reg("a"), Lit(2)), I2("mod", Reg("a"), Lit(0)) }

Generated == UNION { [1..n -> Alphabet] : n \in 0..MaxLen }

\* Programs with set, mul, jgz and loops.
Handpicked ==
    { \* the example of the puzzle text (part 2)
      <<I1("snd", Lit(1)), I1("snd", Lit(2)), I1("snd", Reg("p")),
        I1("rcv", Reg("a")), I1("rcv", Reg("b")), I1("rcv", Reg("c")),
        I1("rcv", Reg("d"))>>,
      \* a counted loop of sends, then receives
      <<I2("set", Reg("a"), Lit(2)), I1("snd", Reg("a")),
        I2("add", Reg("a"), Lit(-1)), I2("jgz", Reg("a"), Lit(-2)),
        I1("rcv", Reg("b")), I2("mul", Reg("b"), Reg("b")),
        I1("snd", Reg("b")), I1("rcv", Reg("c"))>>,
      \* jumps forward, backward past the start
      <<I2("jgz", Lit(1), Lit(2)), I2("jgz", Lit(1), Lit(-5)),
        I2("jgz", Reg("a"), Lit(7)), I2("set", Reg("a"), Lit(-7)),
        I2("mod", Reg("a"), Lit(5)), I1("snd", Reg("a")),
        I2("jgz", Reg("a"), Lit(-5))>>,
      \* registers read before they are written
      <<I2("mul", Reg("c"), Lit(3)), I2("mod", Reg("d"), Lit(5)),
        I2("set", Reg("e"), Reg("f")), I2("jgz", Reg("g"), Lit(3)),
        I1("snd", Reg("h")), I1("rcv", Reg("c"))>>,
      \* a jump with offset 0
      <<I2("jgz", Reg("a"), Lit(0)), I2("set", Reg("a"), Lit(1)),
        I2("jgz", Reg("a"), Lit(0))>>,
      \* a line that INSTR_RX matches although an operand is missing
      <<I2("add", Reg("a"), Lit(2)), I1("set", Reg("a"))>> }

Programs == Generated \cup Handpicked

\* the example of the module docstring (part 1)
Example ==
    <<I2("set", Reg("a"), Lit(1)), I2("add", Reg("a"), Lit(2)),
      I2("mul", Reg("a"), Reg("a")), I2("mod", Reg("a"), Lit(5)),
      I1("snd", Reg("a")), I2("set", Reg("a"), Lit(0)),
      I1("rcv", Reg("a")), I2("jgz", Reg("a"), Lit(-1)),
      I2("set", Reg("a"), Lit(1)), I2("jgz", Reg("a"), Lit(-2))>>

\* a rcv that does nothing, then one that recovers
SkipThenRecover ==
    <<I1("snd", Lit(1)), I1("snd", Lit(2)), I1("rcv", Reg("a")),
      I2("set", Reg("a"), Lit(3)), I1("rcv", Reg("a")),
      I1("snd", Lit(5))>>

\* programs given to part1
SinglePrograms == Programs \cup {Example, SkipThenRecover}

----------------------------------------------------------------------------
(* BadDuetVM helpers inherited by DuetVM.                                  *)

\* (mutant) regs.get(x, 1)
RegGetDefaultOne(r, x) == IF x \in DOMAIN r THEN r[x] ELSE 1

\* regs.get(x, 0)
RegGet(r, x) == IF x \in DOMAIN r THEN r[x] ELSE 0

\* regs[x] = v
RegSet(r, x, v) == [k \in (DOMAIN r) \cup {x} |-> IF k = x THEN v ELSE r[k]]

fet(r, x) == IF x.isReg THEN RegGet(r, x.name) ELSE x.val

\* (mutant) the remainder of a division that truncates toward zero: the
\* result has the sign of the dividend
TruncMod(a, b) ==
    LET m == IF a >= 0 THEN a ELSE -a
        n == IF b >= 0 THEN b ELSE -b
    IN  IF a >= 0 THEN m % n ELSE -(m % n)

\* Python's %: the result has the sign of the divisor (b # 0).
PyMod(a, b) == IF b > 0 THEN a % b ELSE -((-a) % (-b))

InProgram(k) == 0 <= k /\ k < Len(program)

\* program[self.ip] (Python indexes from 0)
Instr(i) == program[ip[i] + 1]

EmptyDict == [k \in {} |-> 0]

\* the number of operands the method of a mnemonic takes (besides self)
NArgs(o) == IF o \in {"snd", "rcv"} THEN 1 ELSE 2

\* method.__call__(self, *args) is given as many operands as the method
\* takes; otherwise Python raises TypeError
WellCalled(ins) == Len(ins.args) = NArgs(ins.op)

----------------------------------------------------------------------------
\* DuetCoordinator(): two fresh instances, paired; c is "start0" when run is
\* about to be called and "off" when there is no coordinator
NewCoordinator(c) ==
    /\ regs = [i \in VM |-> EmptyDict]
    /\ ip = [i \in VM |-> 0]
    /\ sent = [i \in VM |-> <<>>]
    /\ received = [i \in VM |-> <<>>]
    /\ queue = [i \in VM |-> <<>>]
    /\ feeder = [i \in VM |-> <<>>]
    /\ lock = 1
    /\ pc = [i \in VM |-> "idle"]
    /\ pipe = [i \in VM |-> <<>>]
    /\ vm = [i \in VM |-> [regs |-> EmptyDict, ip |-> 0, sent |-> <<>>,
                             received |-> <<>>]]
    /\ cpc = c
    /\ result = -1
    /\ nsnd = [i \in VM |-> 0]

\* BadDuetVM(): p is "run" when execute is about to be called and "off" when
\* there is no single-instance machine
NewBadDuetVM(p) ==
    bad = [pc |-> p, regs |-> EmptyDict, played |-> <<>>, recovers |-> <<>>,
           ip |-> 0, ret |-> <<>>]

\* no input is being parsed
NoParser == parser = [state |-> "off", lines |-> <<>>, k |-> 1, program |-> <<>>]

\* the solvers of day 13 and day 6 are not run
NoOtherDays ==
    /\ firewall = [layers |-> <<>>, num_layers |-> 0]
    /\ day13 = [pc |-> "off", delay |-> 0, n |-> 0, ret |-> -1]
    /\ banks = <<>>
    /\ day6 = [pc |-> "off", input |-> <<>>, states |-> {}, count |-> 0,
               step_count |-> 0, ret |-> 0]

\* part2 on a parsed program
Init ==
    /\ program \in Programs
    /\ NewCoordinator("start0")
    /\ NewBadDuetVM("off")
    /\ NoParser
    /\ prev = <<>>
    /\ NoOtherDays

----------------------------------------------------------------------------
(* The instruction methods.  Each gives the register dict (or the ip) the  *)
(* method leaves; execute adds 1 to ip afterwards.                         *)

\* (mutant) set rebinds regs to a new dict holding x only
setClears(r, x, y) == [k \in {x.name} |-> fet(r, y)]

set(r, x, y) == RegSet(r, x.name, fet(r, y))

add(r, x, y) == RegSet(r, x.name, RegGet(r, x.name) + fet(r, y))

\* (mutant) mul adds
mulAdds(r, x, y) == RegSet(r, x.name, RegGet(r, x.name) + fet(r, y))

mul(r, x, y) == RegSet(r, x.name, RegGet(r, x.name) * fet(r, y))

\* only for fet(r, y) # 0; otherwise Python raises ZeroDivisionError
mod(r, x, y) == RegSet(r, x.name, PyMod(RegGet(r, x.name), fet(r, y)))

\* (mutant) jgz forgets that execute adds 1
jgzNoMinusOne(r, k, x, y) == IF fet(r, x) > 0 THEN k + fet(r, y) ELSE k

\* the ip that jgz leaves, given the ip k it was called at
jgz(r, k, x, y) == IF fet(r, x) > 0 THEN k + fet(r, y) - 1 ELSE k

\* (mutant) the report with the two lists exchanged
ReportSwapped(i) ==
    [ip |-> ip[i], sent |-> received[i], received |-> sent[i]]

\* (mutant) the ip is reported after one more ip += 1
ReportNext(i) ==
    [ip |-> ip[i] + 1, sent |-> sent[i], received |-> received[i]]

\* what execute writes to its result pipe after the loop
Report(i) == [ip |-> ip[i], sent |-> sent[i], received |-> received[i]]

\* (mutant) get() takes the value put last
GetNewest(q) == q[Len(q)]

\* the value queue.get returns: the one put first
GetVal(q) == Head(q)

\* (mutant) queue.get() without a timeout never raises queue.Empty
GetNeverTimesOut(q) == FALSE

\* queue.get(timeout=2) raises queue.Empty: nothing readable during the wait
GetTimesOut(q) == q = <<>>

\* (mutant) lock.acquire() without a timeout never fails
AcquireNeverTimesOut(l) == FALSE

\* lock.acquire(block=True, timeout=0.1) fails: no permit during the wait
AcquireTimesOut(l) == l = 0

\* the process of instance i is executing the while loop of execute and the
\* instruction at ip is about to be fetched
AtFetch(i) == pc[i] = "loop" /\ InProgram(ip[i])

----------------------------------------------------------------------------
(* DuetVM.execute, one action per path through the loop body.              *)

\* (mutant) put() places the value in front of the values not yet written
ExecSndPrepends(i) ==
    /\ AtFetch(i) /\ Instr(i).op = "snd" /\ WellCalled(Instr(i))
    /\ LET val == fet(regs[i], Instr(i).args[1]) IN
        /\ feeder' = [feeder EXCEPT ![i] = <<val>> \o @]
        /\ sent' = [sent EXCEPT ![i] = Append(@, val)]
    /\ nsnd' = [nsnd EXCEPT ![i] = @ + 1]
    /\ ip' = [ip EXCEPT ![i] = @ + 1]
    /\ UNCHANGED <<bad, parser, prev, otherDays, program, regs, received, queue, lock, pc, pipe, vm, cpc,
                   result>>

\* snd X: put on the partner's queue, append to sent
ExecSnd(i) ==
    /\ AtFetch(i) /\ Instr(i).op = "snd" /\ WellCalled(Instr(i))
    /\ LET val == fet(regs[i], Instr(i).args[1]) IN
        /\ feeder' = [feeder EXCEPT ![i] = Append(@, val)]
        /\ sent' = [sent EXCEPT ![i] = Append(@, val)]
    /\ nsnd' = [nsnd EXCEPT ![i] = @ + 1]
    /\ ip' = [ip EXCEPT ![i] = @ + 1]
    /\ UNCHANGED <<bad, parser, prev, otherDays, program, regs, received, queue, lock, pc, pipe, vm, cpc,
                   result>>

ExecSet(i) ==
    /\ AtFetch(i) /\ Instr(i).op = "set" /\ WellCalled(Instr(i))
    /\ regs' = [regs EXCEPT ![i] = set(@, Instr(i).args[1], Instr(i).args[2])]
    /\ ip' = [ip EXCEPT ![i] = @ + 1]
    /\ UNCHANGED <<bad, parser, prev, otherDays, program, sent, received, queue, feeder, lock, pc, pipe, vm,
                   cpc, result, nsnd>>

\* (mutant) the register dict is one object shared by both instances
ExecAddShared(i) ==
    /\ AtFetch(i) /\ Instr(i).op = "add" /\ WellCalled(Instr(i))
    /\ regs' = [j \in VM |-> add(regs[j], Instr(i).args[1], Instr(i).args[2])]
    /\ ip' = [ip EXCEPT ![i] = @ + 1]
    /\ UNCHANGED <<bad, parser, prev, otherDays, program, sent, received, queue, feeder, lock, pc, pipe, vm,
                   cpc, result, nsnd>>

ExecAdd(i) ==
    /\ AtFetch(i) /\ Instr(i).op = "add" /\ WellCalled(Instr(i))
    /\ regs' = [regs EXCEPT ![i] = add(@, Instr(i).args[1], Instr(i).args[2])]
    /\ ip' = [ip EXCEPT ![i] = @ + 1]
    /\ UNCHANGED <<bad, parser, prev, otherDays, program, sent, received, queue, feeder, lock, pc, pipe, vm,
                   cpc, result, nsnd>>

ExecMul(i) ==
    /\ AtFetch(i) /\ Instr(i).op = "mul" /\ WellCalled(Instr(i))
    /\ regs' = [regs EXCEPT ![i] = mul(@, Instr(i).args[1], Instr(i).args[2])]
    /\ ip' = [ip EXCEPT ![i] = @ + 1]
    /\ UNCHANGED <<bad, parser, prev, otherDays, program, sent, received, queue, feeder, lock, pc, pipe, vm,
                   cpc, result, nsnd>>

ExecMod(i) ==
    /\ AtFetch(i) /\ Instr(i).op = "mod" /\ WellCalled(Instr(i))
    /\ fet(regs[i], Instr(i).args[2]) # 0
    /\ regs' = [regs EXCEPT ![i] = mod(@, Instr(i).args[1], Instr(i).args[2])]
    /\ ip' = [ip EXCEPT ![i] = @ + 1]
    /\ UNCHANGED <<bad, parser, prev, otherDays, program, sent, received, queue, feeder, lock, pc, pipe, vm,
                   cpc, result, nsnd>>

\* mod by zero: ZeroDivisionError leaves execute; the process dies without
\* writing anything to its result pipe
ExecModZero(i) ==
    /\ AtFetch(i) /\ Instr(i).op = "mod" /\ WellCalled(Instr(i))
    /\ fet(regs[i], Instr(i).args[2]) = 0
    /\ pc' = [pc EXCEPT ![i] = "crashed"]
    /\ UNCHANGED <<bad, parser, prev, otherDays, program, regs, ip, sent, received, queue, feeder, lock,
                   pipe, vm, cpc, result, nsnd>>

\* (mutant) the dual loop does not add 1 to ip after a jgz
ExecJgzNoAdvance(i) ==
    /\ AtFetch(i) /\ Instr(i).op = "jgz" /\ WellCalled(Instr(i))
    /\ ip' = [ip EXCEPT ![i] =
                jgz(regs[i], @, Instr(i).args[1], Instr(i).args[2])]
    /\ UNCHANGED <<bad, parser, prev, otherDays, program, regs, sent, received, queue, feeder, lock, pc,
                   pipe, vm, cpc, result, nsnd>>

ExecJgz(i) ==
    /\ AtFetch(i) /\ Instr(i).op = "jgz" /\ WellCalled(Instr(i))
    /\ ip' = [ip EXCEPT ![i] =
                jgz(regs[i], @, Instr(i).args[1], Instr(i).args[2]) + 1]
    /\ UNCHANGED <<bad, parser, prev, otherDays, program, regs, sent, received, queue, feeder, lock, pc,
                   pipe, vm, cpc, result, nsnd>>

\* (mutant) the permit is taken whether or not it is free
RcvAcquireAnyway(i) ==
    /\ AtFetch(i) /\ Instr(i).op = "rcv"
    /\ lock' = lock - 1
    /\ pc' = [pc EXCEPT ![i] = "get"]
    /\ UNCHANGED <<bad, parser, prev, otherDays, program, regs, ip, sent, received, queue, feeder, pipe, vm,
                   cpc, result, nsnd>>

\* rcv X, first half: the permit is acquired
RcvAcquire(i) ==
    /\ AtFetch(i) /\ Instr(i).op = "rcv"
    /\ lock > 0
    /\ lock' = lock - 1
    /\ pc' = [pc EXCEPT ![i] = "get"]
    /\ UNCHANGED <<bad, parser, prev, otherDays, program, regs, ip, sent, received, queue, feeder, pipe, vm,
                   cpc, result, nsnd>>

\* rcv X, first half: the acquire times out; "QUIT", break, report
RcvQuit(i) ==
    /\ AtFetch(i) /\ Instr(i).op = "rcv"
    /\ AcquireTimesOut(lock)
    /\ pc' = [pc EXCEPT ![i] = "quit"]
    /\ pipe' = [pipe EXCEPT ![i] = Append(@, Report(i))]
    /\ UNCHANGED <<bad, parser, prev, otherDays, program, regs, ip, sent, received, queue, feeder, lock, vm,
                   cpc, result, nsnd>>

\* DuetVM.rcv gets a value: store it, release the permit, ip += 1
RcvGet(i) ==
    /\ pc[i] = "get" /\ WellCalled(Instr(i))
    /\ queue[i] # <<>>
    /\ LET val == GetVal(queue[i]) IN
        /\ regs' = [regs EXCEPT ![i] = RegSet(@, Instr(i).args[1].name, val)]
        /\ received' = [received EXCEPT ![i] = Append(@, val)]
    /\ queue' = [queue EXCEPT ![i] = Tail(@)]
    /\ lock' = lock + 1
    /\ ip' = [ip EXCEPT ![i] = @ + 1]
    /\ pc' = [pc EXCEPT ![i] = "loop"]
    /\ UNCHANGED <<bad, parser, prev, otherDays, program, sent, feeder, pipe, vm, cpc, result, nsnd>>

\* (mutant) the timed-out rcv falls through to ip += 1 before the loop ends
RcvTimeoutAdvances(i) ==
    /\ pc[i] = "get" /\ WellCalled(Instr(i))
    /\ GetTimesOut(queue[i])
    /\ pc' = [pc EXCEPT ![i] = "timedout"]
    /\ ip' = [ip EXCEPT ![i] = @ + 1]
    /\ pipe' = [pipe EXCEPT ![i] =
                  Append(@, [ip |-> ip[i] + 1, sent |-> sent[i],
                             received |-> received[i]])]
    /\ UNCHANGED <<bad, parser, prev, otherDays, program, regs, sent, received, queue, feeder, lock, vm,
                   cpc, result, nsnd>>

\* (mutant) the permit is released before the loop is left
RcvTimeoutReleases(i) ==
    /\ pc[i] = "get" /\ WellCalled(Instr(i))
    /\ GetTimesOut(queue[i])
    /\ lock' = lock + 1
    /\ pc' = [pc EXCEPT ![i] = "timedout"]
    /\ pipe' = [pipe EXCEPT ![i] = Append(@, Report(i))]
    /\ UNCHANGED <<bad, parser, prev, otherDays, program, regs, ip, sent, received, queue, feeder, vm,
                   cpc, result, nsnd>>

\* DuetVM.rcv times out: return True, break with the permit held, report
RcvTimeout(i) ==
    /\ pc[i] = "get" /\ WellCalled(Instr(i))
    /\ GetTimesOut(queue[i])
    /\ pc' = [pc EXCEPT ![i] = "timedout"]
    /\ pipe' = [pipe EXCEPT ![i] = Append(@, Report(i))]
    /\ UNCHANGED <<bad, parser, prev, otherDays, program, regs, ip, sent, received, queue, feeder, lock, vm,
                   cpc, result, nsnd>>

\* the method is called with the wrong number of operands: TypeError leaves
\* execute (for a rcv, after the permit was acquired); the process dies
\* without writing anything to its result pipe
ExecTypeError(i) ==
    /\ pc[i] \in {"loop", "get"} /\ InProgram(ip[i])
    /\ ~WellCalled(Instr(i))
    /\ pc[i] = (IF Instr(i).op = "rcv" THEN "get" ELSE "loop")
    /\ pc' = [pc EXCEPT ![i] = "crashed"]
    /\ UNCHANGED <<bad, parser, prev, otherDays, program, regs, ip, sent, received, queue, feeder, lock,
                   pipe, vm, cpc, result, nsnd>>

\* (mutant) execution wraps around to the first instruction
HaltWraps(i) ==
    /\ pc[i] = "loop" /\ ~InProgram(ip[i])
    /\ ip' = [ip EXCEPT ![i] = 0]
    /\ UNCHANGED <<bad, parser, prev, otherDays, program, regs, sent, received, queue, feeder, lock, pc,
                   pipe, vm, cpc, result, nsnd>>

\* the while condition fails: report
Halt(i) ==
    /\ pc[i] = "loop" /\ ~InProgram(ip[i])
    /\ pc' = [pc EXCEPT ![i] = "halted"]
    /\ pipe' = [pipe EXCEPT ![i] = Append(@, Report(i))]
    /\ UNCHANGED <<bad, parser, prev, otherDays, program, regs, ip, sent, received, queue, feeder, lock, vm,
                   cpc, result, nsnd>>

execute(i) ==
    \/ ExecSnd(i) \/ ExecSet(i) \/ ExecAdd(i) \/ ExecMul(i) \/ ExecMod(i)
    \/ ExecModZero(i) \/ ExecJgz(i) \/ ExecTypeError(i)
    \/ RcvAcquire(i) \/ RcvQuit(i) \/ RcvGet(i) \/ RcvTimeout(i)
    \/ Halt(i)

\* (mutant) the queues are not crossed: the value lands in i's own queue
FeedOwnQueue(i) ==
    /\ pc[i] # "idle"
    /\ feeder[i] # <<>>
    /\ queue' = [queue EXCEPT ![i] = Append(@, Head(feeder[i]))]
    /\ feeder' = [feeder EXCEPT ![i] = Tail(@)]
    /\ UNCHANGED <<bad, parser, prev, otherDays, program, regs, ip, sent, received, lock, pc, pipe, vm, cpc,
                   result, nsnd>>

\* the feeder thread of instance i's process moves one value it has put()
\* into the partner's queue
Feed(i) ==
    /\ pc[i] # "idle"
    /\ feeder[i] # <<>>
    /\ queue' = [queue EXCEPT ![partner(i)] = Append(@, Head(feeder[i]))]
    /\ feeder' = [feeder EXCEPT ![i] = Tail(@)]
    /\ UNCHANGED <<bad, parser, prev, otherDays, program, regs, ip, sent, received, lock, pc, pipe, vm, cpc,
                   result, nsnd>>

----------------------------------------------------------------------------
(* DuetCoordinator.run and part2.                                          *)

CName(step, i) == IF i = 0 THEN step \o "0" ELSE step \o "1"

\* the process of instance i has ended (what join waits for): execute has
\* returned or raised, and the queue feeder thread has been flushed
Exited(i) ==
    /\ pc[i] \in {"halted", "quit", "timedout", "crashed"}
    /\ feeder[i] = <<>>

start(i) ==
    /\ cpc = CName("start", i)
    /\ pc' = [pc EXCEPT ![i] = "loop"]
    /\ cpc' = IF i = 0 THEN "start1" ELSE "recv0"
    /\ UNCHANGED <<bad, parser, prev, otherDays, program, regs, ip, sent, received, queue, feeder, lock,
                   pipe, vm, result, nsnd>>

\* the three recv() calls on instance i's result pipe
recv(i) ==
    /\ cpc = CName("recv", i)
    /\ pipe[i] # <<>>
    /\ LET m == Head(pipe[i]) IN
        vm' = [vm EXCEPT ![i].ip = m.ip, ![i].sent = m.sent,
                         ![i].received = m.received]
    /\ pipe' = [pipe EXCEPT ![i] = Tail(@)]
    /\ cpc' = IF i = 0 THEN "recv1" ELSE "join0"
    /\ UNCHANGED <<bad, parser, prev, otherDays, program, regs, ip, sent, received, queue, feeder, lock, pc,
                   result, nsnd>>

\* (mutant) run goes on without waiting for the process to end
joinNoWait(i) ==
    /\ cpc = CName("join", i)
    /\ cpc' = IF i = 0 THEN "join1" ELSE "part2"
    /\ UNCHANGED <<bad, parser, prev, otherDays, program, regs, ip, sent, received, queue, feeder, lock, pc,
                   pipe, vm, result, nsnd>>

join(i) ==
    /\ cpc = CName("join", i)
    /\ Exited(i)
    /\ cpc' = IF i = 0 THEN "join1" ELSE "part2"
    /\ UNCHANGED <<bad, parser, prev, otherDays, program, regs, ip, sent, received, queue, feeder, lock, pc,
                   pipe, vm, result, nsnd>>

\* (mutant) return len(c.vm0.sent)
part2_vm0 ==
    /\ cpc = "part2"
    /\ result' = Len(vm[0].sent)
    /\ cpc' = "returned"
    /\ UNCHANGED <<bad, parser, prev, otherDays, program, regs, ip, sent, received, queue, feeder, lock, pc,
                   pipe, vm, nsnd>>

\* return len(c.vm1.sent)
part2 ==
    /\ cpc = "part2"
    /\ result' = Len(vm[1].sent)
    /\ cpc' = "returned"
    /\ UNCHANGED <<bad, parser, prev, otherDays, program, regs, ip, sent, received, queue, feeder, lock, pc,
                   pipe, vm, nsnd>>

run == \E i \in VM : start(i) \/ recv(i) \/ join(i)

----------------------------------------------------------------------------
Next ==
    \/ \E i \in VM : execute(i)
    \/ \E i \in VM : Feed(i)
    \/ run
    \/ part2

Spec == Init /\ [][Next]_vars

\* Both processes and the feeder threads are scheduled by the operating
\* system and the coordinator runs in the parent process: each keeps taking
\* steps while it can, and a timed wait ends.
FairSpec ==
    /\ Spec
    /\ \A i \in VM : WF_vars(execute(i)) /\ WF_vars(Feed(i))
    /\ WF_vars(run) /\ WF_vars(part2)

----------------------------------------------------------------------------
(* part1: BadDuetVM.execute on one machine, one action per path through    *)
(* the loop body.  The instruction methods are the ones DuetVM inherits.   *)

BadAtFetch == bad.pc = "run" /\ 0 <= bad.ip /\ bad.ip < Len(program)

BadInstr == program[bad.ip + 1]

BadSnd ==
    /\ BadAtFetch /\ BadInstr.op = "snd" /\ WellCalled(BadInstr)
    /\ bad' = [bad EXCEPT !.played = Append(@, fet(bad.regs, BadInstr.args[1])),
                          !.ip = @ + 1]
    /\ UNCHANGED <<program, dualVars, parser, prev, otherDays>>

BadSet ==
    /\ BadAtFetch /\ BadInstr.op = "set" /\ WellCalled(BadInstr)
    /\ bad' = [bad EXCEPT !.regs = set(@, BadInstr.args[1], BadInstr.args[2]),
                          !.ip = @ + 1]
    /\ UNCHANGED <<program, dualVars, parser, prev, otherDays>>

BadAdd ==
    /\ BadAtFetch /\ BadInstr.op = "add" /\ WellCalled(BadInstr)
    /\ bad' = [bad EXCEPT !.regs = add(@, BadInstr.args[1], BadInstr.args[2]),
                          !.ip = @ + 1]
    /\ UNCHANGED <<program, dualVars, parser, prev, otherDays>>

BadMul ==
    /\ BadAtFetch /\ BadInstr.op = "mul" /\ WellCalled(BadInstr)
    /\ bad' = [bad EXCEPT !.regs = mul(@, BadInstr.args[1], BadInstr.args[2]),
                          !.ip = @ + 1]
    /\ UNCHANGED <<program, dualVars, parser, prev, otherDays>>

BadMod ==
    /\ BadAtFetch /\ BadInstr.op = "mod" /\ WellCalled(BadInstr)
    /\ fet(bad.regs, BadInstr.args[2]) # 0
    /\ bad' = [bad EXCEPT !.regs = mod(@, BadInstr.args[1], BadInstr.args[2]),
                          !.ip = @ + 1]
    /\ UNCHANGED <<program, dualVars, parser, prev, otherDays>>

\* ZeroDivisionError leaves execute and part1
BadModZero ==
    /\ BadAtFetch /\ BadInstr.op = "mod" /\ WellCalled(BadInstr)
    /\ fet(bad.regs, BadInstr.args[2]) = 0
    /\ bad' = [bad EXCEPT !.pc = "error"]
    /\ UNCHANGED <<program, dualVars, parser, prev, otherDays>>

BadJgz ==
    /\ BadAtFetch /\ BadInstr.op = "jgz" /\ WellCalled(BadInstr)
    /\ bad' = [bad EXCEPT !.ip =
                 jgz(bad.regs, @, BadInstr.args[1], BadInstr.args[2]) + 1]
    /\ UNCHANGED <<program, dualVars, parser, prev, otherDays>>

\* rcv X with X zero: the method returns None, execute goes on
BadRcvSkip ==
    /\ BadAtFetch /\ BadInstr.op = "rcv" /\ WellCalled(BadInstr)
    /\ fet(bad.regs, BadInstr.args[1]) = 0
    /\ bad' = [bad EXCEPT !.ip = @ + 1]
    /\ UNCHANGED <<program, dualVars, parser, prev, otherDays>>

\* (mutant) recovers.append(played[0])
BadRcvRecoverFirst ==
    /\ BadAtFetch /\ BadInstr.op = "rcv" /\ WellCalled(BadInstr)
    /\ fet(bad.regs, BadInstr.args[1]) # 0
    /\ bad.played # <<>>
    /\ LET rec == Append(bad.recovers, bad.played[1]) IN
        bad' = [bad EXCEPT !.recovers = rec, !.ret = <<rec[1]>>,
                           !.pc = "returned"]
    /\ UNCHANGED <<program, dualVars, parser, prev, otherDays>>

\* rcv X with X nonzero: recovers.append(played[-1]), the method returns
\* True and execute returns recovers[0]
BadRcvRecover ==
    /\ BadAtFetch /\ BadInstr.op = "rcv" /\ WellCalled(BadInstr)
    /\ fet(bad.regs, BadInstr.args[1]) # 0
    /\ bad.played # <<>>
    /\ LET rec == Append(bad.recovers, bad.played[Len(bad.played)]) IN
        bad' = [bad EXCEPT !.recovers = rec, !.ret = <<rec[1]>>,
                           !.pc = "returned"]
    /\ UNCHANGED <<program, dualVars, parser, prev, otherDays>>

\* (mutant) with nothing played the rcv recovers 0
BadRcvRecoversZero ==
    /\ BadAtFetch /\ BadInstr.op = "rcv" /\ WellCalled(BadInstr)
    /\ fet(bad.regs, BadInstr.args[1]) # 0
    /\ bad.played = <<>>
    /\ bad' = [bad EXCEPT !.recovers = <<0>>, !.ret = <<0>>,
                          !.pc = "returned"]
    /\ UNCHANGED <<program, dualVars, parser, prev, otherDays>>

\* rcv X with X nonzero and nothing played: played[-1] raises IndexError
BadRcvNothingPlayed ==
    /\ BadAtFetch /\ BadInstr.op = "rcv" /\ WellCalled(BadInstr)
    /\ fet(bad.regs, BadInstr.args[1]) # 0
    /\ bad.played = <<>>
    /\ bad' = [bad EXCEPT !.pc = "error"]
    /\ UNCHANGED <<program, dualVars, parser, prev, otherDays>>

\* the method is called with the wrong number of operands: TypeError
\* leaves execute and part1
BadTypeError ==
    /\ BadAtFetch /\ ~WellCalled(BadInstr)
    /\ bad' = [bad EXCEPT !.pc = "error"]
    /\ UNCHANGED <<program, dualVars, parser, prev, otherDays>>

\* the while condition fails: execute returns None
BadEnd ==
    /\ bad.pc = "run" /\ ~(0 <= bad.ip /\ bad.ip < Len(program))
    /\ bad' = [bad EXCEPT !.pc = "ended"]
    /\ UNCHANGED <<program, dualVars, parser, prev, otherDays>>

part1 ==
    \/ BadSnd \/ BadSet \/ BadAdd \/ BadMul \/ BadMod \/ BadModZero
    \/ BadJgz \/ BadRcvSkip \/ BadRcvRecover \/ BadRcvNothingPlayed
    \/ BadTypeError \/ BadEnd

\* part1 on a parsed program
SingleInit ==
    /\ program \in SinglePrograms
    /\ NewCoordinator("off")
    /\ NewBadDuetVM("run")
    /\ NoParser
    /\ prev = <<>>
    /\ NoOtherDays

SingleSpec == SingleInit /\ [][part1]_vars

\* part1 runs in the main thread and keeps executing
FairSingleSpec == SingleSpec /\ WF_vars(part1)

\* part1 or part2 on a parsed program
BothSpec == (Init \/ SingleInit) /\ [][Next \/ part1]_vars

----------------------------------------------------------------------------
(* BadDuetVM.parse.  A line is a sequence of characters.                   *)
(* INSTR_RX = (snd|set|add|mul|mod|rcv|jgz)\s+(\S+)(?:\s+(\S+))? is        *)
(* applied with re.match: anchored at the start of the line only.          *)

\* Largest number of input lines.
MaxLines == 2

Lines ==
    {
      <<"s", "n", "d", " ", "a">>,  \* well-formed
      <<"s", "e", "t", " ", "a", " ", "1", "\n">>,  \* well-formed, with the newline readlines keeps
      <<"j", "g", "z", " ", "a", " ", "-", "9">>,  \* well-formed, leaves the program when taken
      <<"s", "n", "d", " ", "a", " ", "b">>,  \* one operand too many
      <<"s", "e", "t", " ", "a">>,  \* one operand too few
      <<"a", "d", "d", " ", "a", " ", "1", " ", "x">>,  \* text after the operands
      <<"m", "u", "l", " ", "a", "b", " ", "1">>,  \* an operand that is no register and no integer
      <<"m", "o", "d", " ", "a", " ", "1", "x">>,  \* an operand that is no register and no integer
      <<"n", "o", "p", " ", "a">>,  \* unknown mnemonic
      <<"r", "c", "v">>,  \* no operand
      <<" ", "r", "c", "v", " ", "a">>,  \* leading blank
      <<"s", "n", "d", "x", " ", "a">>   \* unknown mnemonic
    }

Inputs == UNION { [1..n -> Lines] : n \in 0..MaxLines }

Mnemonics == {"snd", "set", "add", "mul", "mod", "rcv", "jgz"}

\* \s
IsSpace(c) == c \in {" ", "\n", "\t"}

\* the first three characters as one string
Prefix3(line) == line[1] \o line[2] \o line[3]

\* the end of the longest run of \s (sp = TRUE) or \S (sp = FALSE)
\* characters of line that starts at position p: the position after it
RECURSIVE SpanEnd(_, _, _)
SpanEnd(line, p, sp) ==
    IF p <= Len(line) /\ IsSpace(line[p]) = sp
    THEN SpanEnd(line, p + 1, sp)
    ELSE p

\* re.match(INSTR_RX, line): <<>> for None, else the one-element sequence
\* holding the groups that are not None (mnemonic, operands)
Match(line) ==
    LET p1 == SpanEnd(line, 4, TRUE)
        p2 == SpanEnd(line, p1, FALSE)
        p3 == SpanEnd(line, p2, TRUE)
        p4 == SpanEnd(line, p3, FALSE)
    IN  IF /\ Len(line) >= 3
           /\ Prefix3(line) \in Mnemonics
           /\ p1 > 4
           /\ p2 > p1
        THEN <<[op |-> Prefix3(line),
                args |-> IF p3 > p2 /\ p4 > p3
                         THEN <<SubSeq(line, p1, p2 - 1),
                                SubSeq(line, p3, p4 - 1)>>
                         ELSE <<SubSeq(line, p1, p2 - 1)>>]>>
        ELSE <<>>

\* the line matches: program.append((method, args))
ParseLine ==
    /\ parser.state = "parsing" /\ parser.k <= Len(parser.lines)
    /\ Match(parser.lines[parser.k]) # <<>>
    /\ parser' = [parser EXCEPT
                    !.program = Append(@, Match(parser.lines[parser.k])[1]),
                    !.k = @ + 1]
    /\ UNCHANGED <<program, dualVars, bad, prev, otherDays>>

\* (mutant) a line that does not match is skipped
ParseFailSkips ==
    /\ parser.state = "parsing" /\ parser.k <= Len(parser.lines)
    /\ Match(parser.lines[parser.k]) = <<>>
    /\ parser' = [parser EXCEPT !.k = @ + 1]
    /\ UNCHANGED <<program, dualVars, bad, prev, otherDays>>

\* the line does not match: raise AssertionError()
ParseFail ==
    /\ parser.state = "parsing" /\ parser.k <= Len(parser.lines)
    /\ Match(parser.lines[parser.k]) = <<>>
    /\ parser' = [parser EXCEPT !.state = "error"]
    /\ UNCHANGED <<program, dualVars, bad, prev, otherDays>>

\* return program
ParseReturn ==
    /\ parser.state = "parsing" /\ parser.k > Len(parser.lines)
    /\ parser' = [parser EXCEPT !.state = "done"]
    /\ UNCHANGED <<program, dualVars, bad, prev, otherDays>>

parse == ParseLine \/ ParseFail \/ ParseReturn

\* parse called on input lines
ParseInit ==
    /\ program = <<>>
    /\ NewCoordinator("off")
    /\ NewBadDuetVM("off")
    /\ parser \in [state : {"parsing"}, lines : Inputs, k : {1},
                   program : {<<>>}]
    /\ prev = <<>>
    /\ NoOtherDays

ParseSpec == ParseInit /\ [][parse]_vars

----------------------------------------------------------------------------
(* Two runs of part2 on the same program, one after the other, to compare  *)
(* their outcomes.                                                         *)

\* what a run of part2 leaves: the value returned and the sent lists
Outcome == [result |-> result, sent |-> [i \in VM |-> vm[i].sent]]

\* part2 is called again on the same program: a new DuetCoordinator
Rerun ==
    /\ cpc = "returned"
    /\ prev = <<>>
    /\ prev' = <<Outcome>>
    /\ regs' = [i \in VM |-> EmptyDict]
    /\ ip' = [i \in VM |-> 0]
    /\ sent' = [i \in VM |-> <<>>]
    /\ received' = [i \in VM |-> <<>>]
    /\ queue' = [i \in VM |-> <<>>]
    /\ feeder' = [i \in VM |-> <<>>]
    /\ lock' = 1
    /\ pc' = [i \in VM |-> "idle"]
    /\ pipe' = [i \in VM |-> <<>>]
    /\ vm' = [i \in VM |-> [regs |-> EmptyDict, ip |-> 0, sent |-> <<>>,
                              received |-> <<>>]]
    /\ cpc' = "start0"
    /\ result' = -1
    /\ nsnd' = [i \in VM |-> 0]
    /\ UNCHANGED <<program, bad, parser, otherDays>>

TwoRunSpec == Init /\ [][Next \/ Rerun]_vars

----------------------------------------------------------------------------
(* Vocabulary of the properties.                                           *)

RcvOnly == <<I1("rcv", Reg("a"))>>

OnlySnd(prog) == \A k \in 1..Len(prog) : prog[k].op = "snd"

NumSnd(prog) == Cardinality({k \in 1..Len(prog) : prog[k].op = "snd"})

IsPrefix(s, t) == Len(s) <= Len(t) /\ \A k \in 1..Len(s) : s[k] = t[k]

\* instance i is at a rcv instruction: not yet started or about to ask for
\* the permit, or holding it inside queue.get
AtRcv(i) ==
    \/ pc[i] = "get"
    \/ pc[i] \in {"idle", "loop"} /\ InProgram(ip[i]) /\ Instr(i).op = "rcv"

\* execute has left its loop and reported
Stopped(i) == pc[i] \in {"halted", "quit", "timedout"}

\* stopped inside the program, at a rcv
StoppedAtRcv(i) == pc[i] \in {"quit", "timedout"}

\* the step in which instance i gives up at a rcv
GivesUp(i) == pc[i] \in {"loop", "get"} /\ pc'[i] \in {"quit", "timedout"}

\* nothing is readable from i's inbound queue and nothing is on its way
NothingInbound(i) == queue[i] = <<>> /\ feeder[partner(i)] = <<>>

\* every instance has stopped, has run off the program, or is at a rcv with
\* nothing inbound
TrueDeadlock ==
    \A i \in VM :
        \/ Stopped(i)
        \/ pc[i] \in {"idle", "loop"} /\ ~InProgram(ip[i])
        \/ AtRcv(i) /\ NothingInbound(i)

Returned == cpc = "returned"

----------------------------------------------------------------------------
(* C1: no false-positive deadlock: an instance never gives up at a rcv     *)
(* (permit not obtained, or get timed out) while a value is present in its *)
(* own inbound queue.                                                      *)
C1_NoFalsePositiveDeadlock ==
    [][\A i \in VM : GivesUp(i) => queue[i] = <<>>]_vars

(* C2: from a state in which every instance that has not halted is at a    *)
(* rcv with nothing inbound, both instances stop and part2 returns.        *)
C2_DeadlockTerminates ==
    TrueDeadlock ~> (Returned /\ \A i \in VM : Stopped(i))

C2_Witness ==
    /\ Returned
    /\ pc[0] = "timedout" /\ pc[1] = "quit"
    /\ received[0] # <<>>
    /\ \A i \in VM : NothingInbound(i)

C4_Original ==
    (OnlySnd(program) /\ Returned) =>
        (Len(vm[1].sent) = 0 /\ Len(vm[0].sent) = NumSnd(program))

(* C4 amended: if the program contains only snd instructions, then on      *)
(* return both instances have halted by running off the program, each has  *)
(* sent as many values as the program has snd instructions, and that       *)
(* number is returned.                                                     *)
C4_OnlySndCompletes ==
    (OnlySnd(program) /\ Returned) =>
        /\ \A i \in VM : pc[i] = "halted" /\ vm[i].ip = Len(program)
        /\ \A i \in VM : Len(vm[i].sent) = NumSnd(program)
        /\ result = NumSnd(program)

C4_Witness ==
    /\ OnlySnd(program) /\ Len(program) = 3 /\ program[1] # program[2]
    /\ Returned

(* C5: the value part2 returns is the number of snd instructions the       *)
(* second instance executed before it stopped, however the run ended.      *)
C5_ReturnsVm1SentCount ==
    Returned => (Stopped(1) /\ result = nsnd[1])

C5_Witness ==
    /\ Returned
    /\ StoppedAtRcv(1) /\ pc[0] = "halted"
    /\ nsnd[1] >= 1 /\ nsnd[0] # nsnd[1]

(* C6: before it executes anything each instance has ip 0 and registers    *)
(* that are empty except for p, which reads 0 in instance 0 and 1 in       *)
(* instance 1.                                                             *)
C6_SeedRegister ==
    \A i \in VM :
        pc[i] = "idle" =>
            /\ ip[i] = 0
            /\ DOMAIN regs[i] \subseteq {"p"}
            /\ fet(regs[i], Reg("p")) = i

(* C7: once an instance has executed a modulo by zero, its peer executes   *)
(* no further instruction.                                                 *)
C7_FaultStopsBoth ==
    [][\A i \in VM :
         pc[i] = "crashed" =>
            /\ ip'[partner(i)] = ip[partner(i)]
            /\ regs'[partner(i)] = regs[partner(i)]
            /\ sent'[partner(i)] = sent[partner(i)]
            /\ received'[partner(i)] = received[partner(i)]]_vars

(* C8: FIFO: what an instance has received is a prefix of what its         *)
(* partner has sent.                                                       *)
C8_Fifo ==
    \A i \in VM : IsPrefix(received[i], sent[partner(i)])

C8_Witness ==
    \E i \in VM :
        /\ Len(received[i]) >= 2
        /\ received[i][1] # received[i][2]

(* C9: a rcv that obtains no value (permit not acquired, or get timed out) *)
(* changes no register, ip, sent or received list and removes nothing from *)
(* either queue; the ip still points at that rcv.                          *)
C9_FailedRcvChangesNothing ==
    [][\A i \in VM :
         GivesUp(i) =>
            /\ regs' = regs /\ ip' = ip
            /\ sent' = sent /\ received' = received
            /\ queue' = queue /\ feeder' = feeder
            /\ InProgram(ip'[i]) /\ program[ip'[i] + 1].op = "rcv"
            /\ Head(pipe'[i]).ip = ip[i]]_vars

C9_Witness ==
    \E i \in VM :
        /\ pc[i] = "timedout" /\ pc[partner(i)] = "quit"
        /\ received[i] # <<>> /\ sent[i] # <<>>
        /\ ip[i] > 0

(* C10: a blocked rcv is retried: an instance that waited at a rcv on an   *)
(* empty queue pops a value its peer sends later.  Giving up is final, so  *)
(* the claim requires that no instance has given up its wait while a value *)
(* for it is in its queue.                                                 *)
C10_BlockedRcvRetried ==
    \A i \in VM : pc[i] = "timedout" => queue[i] = <<>>

\* DuetCoordinator.run has returned to part2
RunReturned == cpc \in {"part2", "returned"}

(* C11: once run has returned, both processes have ended (execute is over   *)
(* and the queue feeder is flushed) and neither can take another step.     *)
C11_JoinedOnReturn ==
    RunReturned =>
        \A i \in VM : Exited(i) /\ ~ENABLED execute(i) /\ ~ENABLED Feed(i)

C11_Witness ==
    /\ Returned
    /\ \E i \in VM : queue[i] # <<>> /\ pc[i] = "quit"
    /\ \E i \in VM : pc[i] = "halted"

(* C12: part1 on the example of the docstring returns 4.                   *)
C12_ExampleReturns4 ==
    (program = Example) => <>(bad.pc = "returned" /\ bad.ret = <<4>>)

C12_Witness ==
    /\ program = Example
    /\ bad.pc = "returned" /\ bad.ret = <<4>>
    /\ bad.ip = 6 /\ bad.regs["a"] = 1

\* the single machine executes the rcv it is at
BadRcvStep == BadAtFetch /\ BadInstr.op = "rcv" /\ bad' # bad

LastPlayed == bad.played[Len(bad.played)]

(* C13 as stated: in single mode every rcv with a nonzero operand value    *)
(* ends the run and returns the value of the most recent snd.              *)
C13_Original ==
    [][(BadRcvStep /\ fet(bad.regs, BadInstr.args[1]) # 0) =>
          /\ bad'.pc = "returned"
          /\ bad.played # <<>>
          /\ bad'.ret = <<LastPlayed>>]_vars

(* C13 amended: in single mode a rcv with a nonzero operand value ends the *)
(* run; it returns the value of the most recent snd if a snd has been      *)
(* executed, and otherwise the run ends with an error and returns nothing. *)
(* A rcv with operand value zero only advances ip by 1.  No rcv waits.     *)
C13_SingleRcv ==
    [][(BadAtFetch /\ BadInstr.op = "rcv") =>
          /\ ENABLED part1
          /\ (bad' # bad) =>
                IF fet(bad.regs, BadInstr.args[1]) = 0
                THEN bad' = [bad EXCEPT !.ip = @ + 1]
                ELSE IF bad.played # <<>>
                THEN /\ bad'.pc = "returned"
                     /\ bad'.ret = <<LastPlayed>>
                     /\ bad'.ip = bad.ip /\ bad'.regs = bad.regs
                     /\ bad'.played = bad.played
                ELSE bad' = [bad EXCEPT !.pc = "error"]]_vars

C13_Witness ==
    /\ program = SkipThenRecover
    /\ bad.pc = "returned" /\ bad.ret = <<2>>
    /\ bad.played = <<1, 2>> /\ bad.ip = 4

\* the ip after jgz x y at ip k, as the claim gives it
JgzNext(r, k, ins) ==
    IF fet(r, ins.args[1]) > 0 THEN k + fet(r, ins.args[2]) ELSE k + 1

Unset(r, x) == x.isReg /\ x.name \notin DOMAIN r

\* what executing ins on registers r must give when an unset register
\* reads as 0: new registers r2, value sent v (a sequence), next ip k2
LazyDefault(r, k, ins, r2, v, k2) ==
    LET x == ins.args[1]
        y == ins.args[Len(ins.args)]
    IN  /\ (ins.op = "snd" /\ Unset(r, x)) => v = <<0>>
        /\ (ins.op = "set" /\ Unset(r, y)) => r2[x.name] = 0
        /\ (ins.op = "add" /\ Unset(r, x)) =>
                r2[x.name] = (IF Unset(r, y) THEN 0 ELSE fet(r, y))
        /\ (ins.op = "mul" /\ Unset(r, x)) => r2[x.name] = 0
        /\ (ins.op = "mod" /\ Unset(r, x)) => r2[x.name] = 0
        /\ (ins.op = "jgz" /\ Unset(r, x)) => k2 = k + 1

(* C15: a register that has never been written reads as 0: as the operand  *)
(* of snd, set, jgz and the single-mode rcv test, and as the left operand  *)
(* of add, mul and mod.                                                    *)
C15_UnsetReadsZero ==
    [][/\ \A i \in VM :
            (AtFetch(i) /\ ip'[i] # ip[i]) =>
                LazyDefault(regs[i], ip[i], Instr(i), regs'[i],
                            SubSeq(sent'[i], Len(sent[i]) + 1, Len(sent'[i])),
                            ip'[i])
       /\ (BadAtFetch /\ bad'.ip # bad.ip) =>
            /\ LazyDefault(bad.regs, bad.ip, BadInstr, bad'.regs,
                           SubSeq(bad'.played, Len(bad.played) + 1,
                                  Len(bad'.played)),
                           bad'.ip)
       /\ (BadAtFetch /\ BadInstr.op = "rcv" /\ Unset(bad.regs, BadInstr.args[1])
              /\ bad' # bad) => bad' = [bad EXCEPT !.ip = @ + 1]]_vars

C15_Witness ==
    \E i \in VM :
        /\ sent[i] = <<0>>
        /\ DOMAIN regs[i] = {"c", "d", "e"}
        /\ \A k \in DOMAIN regs[i] : regs[i][k] = 0
        /\ ip[i] = 5

\* the grammar of a program line: mnemonic, operands that are a lowercase
\* letter or an integer literal, one operand for snd and rcv and two for the
\* rest, nothing else on the line
Lower ==
    {"a", "b", "c", "d", "e", "f", "g", "h", "i", "j", "k", "l", "m", "n",
     "o", "p", "q", "r", "s", "t", "u", "v", "w", "x", "y", "z"}

Digit == {"0", "1", "2", "3", "4", "5", "6", "7", "8", "9"}

IsIntLit(tok) ==
    LET body == IF tok # <<>> /\ tok[1] = "-" THEN Tail(tok) ELSE tok IN
        body # <<>> /\ \A k \in 1..Len(body) : body[k] \in Digit

IsOperand(tok) == (Len(tok) = 1 /\ tok[1] \in Lower) \/ IsIntLit(tok)

Arity(op) == IF op \in {"snd", "rcv"} THEN 1 ELSE 2

\* the line without the blanks at its end
RECURSIVE Stripped(_)
Stripped(line) ==
    IF line # <<>> /\ IsSpace(line[Len(line)])
    THEN Stripped(SubSeq(line, 1, Len(line) - 1))
    ELSE line

\* the blank-separated words of a line that starts at a word
RECURSIVE Words(_)
Words(line) ==
    IF line = <<>> THEN <<>>
    ELSE LET e == SpanEnd(line, 1, FALSE)
             n == SpanEnd(line, e, TRUE)
         IN  <<SubSeq(line, 1, e - 1)>> \o Words(SubSeq(line, n, Len(line)))

WellFormed(line) ==
    LET w == Words(Stripped(line)) IN
        /\ line # <<>> /\ ~IsSpace(line[1])
        /\ Len(w) >= 2
        /\ Len(w[1]) = 3 /\ Prefix3(w[1]) \in Mnemonics
        /\ Len(w) - 1 = Arity(Prefix3(w[1]))
        /\ \A k \in 2..Len(w) : IsOperand(w[k])

(* C16: parse fails on every line that does not match the grammar: it      *)
(* returns a program only if every line is well-formed.                    *)
C16_ParseRejectsMalformed ==
    parser.state = "done" =>
        \A k \in 1..Len(parser.lines) : WellFormed(parser.lines[k])

(* C17: part2 is deterministic: a second run on the same program ends     *)
(* with the same returned value and the same final sent lists.             *)
C17_Deterministic ==
    (prev # <<>> /\ cpc = "returned") => Outcome = prev[1]

(* C18: while one instance is suspended inside rcv, its peer can execute   *)
(* its next instruction, also when that is a rcv on a non-empty queue.     *)
C18_PeerNotPrevented ==
    \A i \in VM :
        (pc[i] = "get" /\ AtFetch(partner(i))) =>
            IF Instr(partner(i)).op = "rcv"
            THEN queue[partner(i)] # <<>> => ENABLED RcvAcquire(partner(i))
            ELSE ENABLED execute(partner(i))

\* execute of instance j is over because ip left the program
RanOff(j) == pc[j] = "halted" \/ (pc[j] = "loop" /\ ~InProgram(ip[j]))

\* instance j is at a rcv (waiting or stopped there) with an empty queue
BlockedAtRcv(j) ==
    /\ pc[j] \in {"get", "quit", "timedout"} \/ (AtFetch(j) /\ Instr(j).op = "rcv")
    /\ queue[j] = <<>>

(* C19: an instance gives up at a rcv only when its peer has halted or is  *)
(* itself at a rcv with an empty queue (a peer not yet started is let      *)
(* pass).                                                                  *)
C19_StopsOnlyOnDeadlock ==
    [][\A i \in VM :
         GivesUp(i) =>
            \/ pc[partner(i)] = "idle"
            \/ RanOff(partner(i))
            \/ BlockedAtRcv(partner(i))]_vars

(* C20: an instance takes the permit only after its rcv found its own     *)
(* queue empty; a rcv on a non-empty queue does not touch the permit.      *)
C20_PermitOnlyWhenEmpty ==
    [][\A i \in VM :
         (pc[i] = "loop" /\ pc'[i] = "get") => queue[i] = <<>>]_vars

\* k is an index into the program
Inside(k) == 0 <= k /\ k < Len(program)

(* C21: an instance whose ip is below 0 or at or beyond the length of the   *)
(* program executes nothing: its registers, its sent (played) and received *)
(* lists and its ip no longer change, in dual and in single mode.          *)
C21_NothingOutsideProgram ==
    [][/\ \A i \in VM :
            ~Inside(ip[i]) =>
                /\ regs'[i] = regs[i] /\ ip'[i] = ip[i]
                /\ sent'[i] = sent[i] /\ received'[i] = received[i]
       /\ ~Inside(bad.ip) =>
                /\ bad'.regs = bad.regs /\ bad'.ip = bad.ip
                /\ bad'.played = bad.played
                /\ bad'.recovers = bad.recovers]_vars

C21_Witness ==
    /\ Returned
    /\ \A i \in VM : pc[i] = "halted" /\ ip[i] < 0 /\ regs[i]["a"] = 3

(* C22: after part2's run has returned, the coordinator's vm0 and vm1 hold  *)
(* each instance's final registers, final ip and full sent list.           *)
C22_FinalStateReadable ==
    Returned =>
        \A i \in VM :
            /\ vm[i].regs = regs[i]
            /\ vm[i].ip = ip[i]
            /\ vm[i].sent = sent[i]

\* the contents of instance j's inbound mp.Queue, oldest first: what is
\* readable, then what the partner has put() and its feeder has yet to write
Channel(j) == queue[j] \o feeder[partner(j)]

(* C23: a dual-mode snd can always be executed (it never waits), and when  *)
(* instance i executes it the value is appended at the tail of the         *)
(* partner's inbound queue and of i's sent list and i's ip grows by 1,     *)
(* while i's registers, i's own inbound queue and the permit stay as they  *)
(* are.                                                                    *)
C23_SndEffects ==
    [][\A i \in VM :
         (AtFetch(i) /\ Instr(i).op = "snd" /\ WellCalled(Instr(i))) =>
            /\ ENABLED ExecSnd(i)
            /\ (ip'[i] # ip[i]) =>
                LET v == fet(regs[i], Instr(i).args[1]) IN
                    /\ Channel(partner(i))' = Append(Channel(partner(i)), v)
                    /\ sent'[i] = Append(sent[i], v)
                    /\ ip'[i] = ip[i] + 1
                    /\ regs'[i] = regs[i]
                    /\ Channel(i)' = Channel(i)
                    /\ lock' = lock]_vars

C23_Witness ==
    \E i \in VM :
        /\ queue[i] # <<>> /\ feeder[partner(i)] # <<>>
        /\ Head(queue[i]) # Head(feeder[partner(i)])
        /\ sent[partner(i)] = Channel(i)
        /\ lock = 0

(* C24: a step of instance i (of its execute loop or of its queue feeder)  *)
(* leaves the partner's registers, ip, sent list and received list as      *)
(* they are.                                                               *)
C24_OwnStateOnly ==
    [][\A i \in VM :
         (execute(i) \/ Feed(i)) =>
            /\ regs'[partner(i)] = regs[partner(i)]
            /\ ip'[partner(i)] = ip[partner(i)]
            /\ sent'[partner(i)] = sent[partner(i)]
            /\ received'[partner(i)] = received[partner(i)]]_vars

C24_Witness ==
    \E i \in VM :
        /\ regs[i] # regs[partner(i)] /\ regs[partner(i)] # EmptyDict
        /\ ip[i] > ip[partner(i)] /\ ip[partner(i)] > 0
        /\ sent[i] # sent[partner(i)]
        /\ received[i] # <<>> /\ received[partner(i)] = <<>>

\* res is a mod b: it lies between 0 and b (b excluded) and differs from a
\* by a multiple of b
IsModOf(res, a, b) ==
    /\ b # 0
    /\ b > 0 => (0 <= res /\ res < b /\ (a - res) % b = 0)
    /\ b < 0 => (b < res /\ res <= 0 /\ (res - a) % (-b) = 0)

\* registers r2 are what set, add, mul or mod x y makes of registers r:
\* only x is written, y is evaluated in r
Arith(r, ins, r2) ==
    LET x == ins.args[1].name
        old == RegGet(r, x)
        y == fet(r, ins.args[2])
    IN  /\ DOMAIN r2 = DOMAIN r \cup {x}
        /\ \A k \in DOMAIN r \ {x} : r2[k] = r[k]
        /\ ins.op = "set" => r2[x] = y
        /\ ins.op = "add" => r2[x] = old + y
        /\ ins.op = "mul" => r2[x] = old * y
        /\ ins.op = "mod" => IsModOf(r2[x], old, y)

IsArith(ins) == ins.op \in {"set", "add", "mul", "mod"} /\ WellCalled(ins)

(* C25: executing set, add, mul or mod x y (for mod, with value(y) not 0)  *)
(* changes only register x, to value(y), x + value(y), x * value(y) and    *)
(* x mod value(y), with y read before x is written; the other registers,   *)
(* the lists and both queues stay as they are and ip grows by exactly 1,   *)
(* in dual and in single mode.                                             *)
C25_ArithEffects ==
    [][/\ \A i \in VM :
            (AtFetch(i) /\ IsArith(Instr(i))
                /\ <<ip[i], regs[i]>>' # <<ip[i], regs[i]>>) =>
                /\ Arith(regs[i], Instr(i), regs'[i])
                /\ ip'[i] = ip[i] + 1
                /\ regs'[partner(i)] = regs[partner(i)]
                /\ UNCHANGED <<queue, feeder, sent, received, lock>>
       /\ (BadAtFetch /\ IsArith(BadInstr)
                /\ <<bad.ip, bad.regs>>' # <<bad.ip, bad.regs>>) =>
                /\ Arith(bad.regs, BadInstr, bad'.regs)
                /\ bad'.ip = bad.ip + 1
                /\ bad'.played = bad.played]_vars

C25_Witness ==
    /\ bad.ip = 3 /\ BadInstr.op = "mod"
    /\ bad.regs = [k \in {"a"} |-> 9]

----------------------------------------------------------------------------
(* part1 and part2 from the input lines: the machine is built, the lines   *)
(* are parsed, and execute (run) is called with the program parse returns. *)

DigitVal ==
    ("0" :> 0) @@ ("1" :> 1) @@ ("2" :> 2) @@ ("3" :> 3) @@ ("4" :> 4) @@
    ("5" :> 5) @@ ("6" :> 6) @@ ("7" :> 7) @@ ("8" :> 8) @@ ("9" :> 9)

\* the operand text without its sign
Unsigned(tok) ==
    IF tok # <<>> /\ tok[1] \in {"-", "+"} THEN Tail(tok) ELSE tok

\* int(x) succeeds (x holds no blanks): an optional sign and digits
IntOk(tok) ==
    /\ Unsigned(tok) # <<>>
    /\ \A k \in 1..Len(Unsigned(tok)) : Unsigned(tok)[k] \in DOMAIN DigitVal

RECURSIVE Magnitude(_)
Magnitude(ds) ==
    IF ds = <<>> THEN 0
    ELSE 10 * Magnitude(SubSeq(ds, 1, Len(ds) - 1)) + DigitVal[ds[Len(ds)]]

\* int(x)
IntOf(tok) ==
    IF tok[1] = "-" THEN -Magnitude(Unsigned(tok)) ELSE Magnitude(Unsigned(tok))

\* the characters as one string
RECURSIVE Join(_)
Join(tok) == IF tok = <<>> THEN "" ELSE tok[1] \o Join(Tail(tok))

\* an operand as fet reads it: an integer if int(x) succeeds, else a
\* register name
Operand(tok) == IF IntOk(tok) THEN Lit(IntOf(tok)) ELSE Reg(Join(tok))

\* the program parse returned, operands as fet reads them
Parsed(prog) ==
    [k \in 1..Len(prog) |->
        [op |-> prog[k].op,
         args |-> [a \in 1..Len(prog[k].args) |-> Operand(prog[k].args[a])]]]

\* inputs that reach rcv, mul and mod in execution
HandpickedInputs ==
    { \* snd a / rcv a
      << <<"s", "n", "d", " ", "a">>, <<"r", "c", "v", " ", "a">> >>,
      \* set a 7 / mod a 4 / mul a a / snd a / rcv a
      << <<"s", "e", "t", " ", "a", " ", "7">>,
         <<"m", "o", "d", " ", "a", " ", "4">>,
         <<"m", "u", "l", " ", "a", " ", "a">>,
         <<"s", "n", "d", " ", "a">>,
         <<"r", "c", "v", " ", "a">> >>,
      \* set a 1 / rcv a
      << <<"s", "e", "t", " ", "a", " ", "1">>, <<"r", "c", "v", " ", "a">> >>,
      \* snd a / rcv a / nop a
      << <<"s", "n", "d", " ", "a">>, <<"r", "c", "v", " ", "a">>,
         <<"n", "o", "p", " ", "a">> >> }

MainInputs == Inputs \cup HandpickedInputs

\* part1(input_lines) or part2(input_lines) is called: the machine or the
\* coordinator is constructed and parse is about to run
MainInit ==
    /\ program = <<>>
    /\ \/ NewCoordinator("parse") /\ NewBadDuetVM("off")
       \/ NewCoordinator("off") /\ NewBadDuetVM("parse")
    /\ parser \in [state : {"parsing"}, lines : MainInputs, k : {1},
                   program : {<<>>}]
    /\ prev = <<>>
    /\ NoOtherDays

\* part1: vm.execute(program) is called with what parse returned
part1Execute ==
    /\ bad.pc = "parse" /\ parser.state = "done"
    /\ program' = Parsed(parser.program)
    /\ bad' = [bad EXCEPT !.pc = "run"]
    /\ UNCHANGED <<dualVars, parser, prev, otherDays>>

\* part2: c.run(program) is called with what parse returned
part2Run ==
    /\ cpc = "parse" /\ parser.state = "done"
    /\ program' = Parsed(parser.program)
    /\ cpc' = "start0"
    /\ UNCHANGED <<regs, ip, sent, received, queue, feeder, lock, pc, pipe, vm,
                   result, nsnd, bad, parser, prev, otherDays>>

MainNext == parse \/ part1Execute \/ part2Run \/ Next \/ part1

MainSpec == MainInit /\ [][MainNext]_vars

\* some line of the input fails to parse
HasBadLine ==
    \E k \in 1..Len(parser.lines) : Match(parser.lines[k]) = <<>>

\* no instruction has been executed, no process started, nothing put on a
\* queue
NothingStarted ==
    /\ program = <<>>
    /\ bad.pc \in {"off", "parse"} /\ bad.ip = 0 /\ bad.played = <<>>
    /\ bad.regs = EmptyDict
    /\ cpc \in {"off", "parse"}
    /\ \A i \in VM :
        /\ pc[i] = "idle" /\ ip[i] = 0 /\ regs[i] = EmptyDict
        /\ sent[i] = <<>> /\ queue[i] = <<>> /\ feeder[i] = <<>>

(* C26: if some line of the input fails to parse, execution never starts:  *)
(* in single mode no instruction is executed, in dual mode no process is   *)
(* started and nothing is put on a queue, and once parse has failed no     *)
(* further step is possible.                                               *)
C26_ParseErrorBlocksExecution ==
    /\ HasBadLine => NothingStarted
    /\ parser.state = "error" => ~ENABLED MainNext

C26_Witness ==
    /\ parser.state = "error" /\ parser.k = 3
    /\ Len(parser.program) = 2 /\ parser.program[2].op = "rcv"
    /\ cpc = "parse"

----------------------------------------------------------------------------
(* The single machine with its integers held as Python holds them: without *)
(* a width.  A value (not negative here) is the sequence of its digits in  *)
(* base 2^15, least significant first, without leading zeros; 0 is <<>>.   *)

Base == 2^15

\* Largest length of the programs of this section.
MaxLong == 3

RECURSIVE ToLong(_)
ToLong(n) == IF n = 0 THEN <<>> ELSE <<n % Base>> \o ToLong(n \div Base)

\* x + y + c, c a carry
RECURSIVE LongAddCarry(_, _, _)
LongAddCarry(x, y, c) ==
    IF x = <<>> /\ y = <<>>
    THEN (IF c = 0 THEN <<>> ELSE <<c>>)
    ELSE LET a == IF x = <<>> THEN 0 ELSE Head(x)
             b == IF y = <<>> THEN 0 ELSE Head(y)
             t == a + b + c
         IN  <<t % Base>> \o
             LongAddCarry(IF x = <<>> THEN <<>> ELSE Tail(x),
                          IF y = <<>> THEN <<>> ELSE Tail(y), t \div Base)

LongAdd(x, y) == LongAddCarry(x, y, 0)

\* x * d + c for one digit d # 0
RECURSIVE LongMulDigit(_, _, _)
LongMulDigit(x, d, c) ==
    IF x = <<>>
    THEN (IF c = 0 THEN <<>> ELSE <<c>>)
    ELSE LET t == Head(x) * d + c IN
            <<t % Base>> \o LongMulDigit(Tail(x), d, t \div Base)

\* x * Base
LongShift(x) == IF x = <<>> THEN <<>> ELSE <<0>> \o x

RECURSIVE LongMul(_, _)
LongMul(x, y) ==
    IF x = <<>> \/ y = <<>> THEN <<>>
    ELSE LongAdd(IF Head(y) = 0 THEN <<>> ELSE LongMulDigit(x, Head(y), 0),
                 LongShift(LongMul(x, Tail(y))))

\* fet and regs.get(x, 0)
LongGet(r, name) == IF name \in DOMAIN r THEN r[name] ELSE <<>>

LongFet(r, x) == IF x.isReg THEN LongGet(r, x.name) ELSE ToLong(x.val)

LongAlphabet ==
    { I2("set", Reg("a"), Lit(2^16)), I2("set", Reg("b"), Lit(3)),
      I2("add", Reg("a"), Reg("b")), I2("mul", Reg("a"), Reg("a")) }

LongPrograms == UNION { [1..n -> LongAlphabet] : n \in 0..MaxLong }

LongInit ==
    /\ program \in LongPrograms
    /\ NewCoordinator("off")
    /\ NewBadDuetVM("long")
    /\ NoParser
    /\ prev = <<>>
    /\ NoOtherDays

LongAtFetch == bad.pc = "long" /\ 0 <= bad.ip /\ bad.ip < Len(program)

LongSetStep ==
    /\ LongAtFetch /\ BadInstr.op = "set"
    /\ bad' = [bad EXCEPT
                 !.regs = RegSet(@, BadInstr.args[1].name,
                                 LongFet(@, BadInstr.args[2])),
                 !.ip = @ + 1]
    /\ UNCHANGED <<program, dualVars, parser, prev, otherDays>>

LongAddStep ==
    /\ LongAtFetch /\ BadInstr.op = "add"
    /\ bad' = [bad EXCEPT
                 !.regs = RegSet(@, BadInstr.args[1].name,
                                 LongAdd(LongGet(@, BadInstr.args[1].name),
                                         LongFet(@, BadInstr.args[2]))),
                 !.ip = @ + 1]
    /\ UNCHANGED <<program, dualVars, parser, prev, otherDays>>

LongMulStep ==
    /\ LongAtFetch /\ BadInstr.op = "mul"
    /\ bad' = [bad EXCEPT
                 !.regs = RegSet(@, BadInstr.args[1].name,
                                 LongMul(LongGet(@, BadInstr.args[1].name),
                                         LongFet(@, BadInstr.args[2]))),
                 !.ip = @ + 1]
    /\ UNCHANGED <<program, dualVars, parser, prev, otherDays>>

LongEnd ==
    /\ bad.pc = "long" /\ ~(0 <= bad.ip /\ bad.ip < Len(program))
    /\ bad' = [bad EXCEPT !.pc = "ended"]
    /\ UNCHANGED <<program, dualVars, parser, prev, otherDays>>

LongNext == LongSetStep \/ LongAddStep \/ LongMulStep \/ LongEnd

LongSpec == LongInit /\ [][LongNext]_vars

\* the value (not negative) is at most 2^63 - 1: it has at most 63 bits
FitsInt64(x) == Len(x) <= 4 \/ (Len(x) = 5 /\ x[5] < 2^3)

(* C27: every register value stays a 64-bit signed integer: after any      *)
(* sequence of set, add and mul instructions each register holds a value   *)
(* of at most 2^63 - 1.                                                    *)
C27_RegistersFitInt64 ==
    \A k \in DOMAIN bad.regs : FitsInt64(bad.regs[k])

(* C28: in every state of a dual run, what an instance has sent is what    *)
(* its partner has received followed by what is in the partner's inbound   *)
(* queue, in order.                                                        *)
C28_ChannelConservation ==
    \A i \in VM :
        sent[i] = received[partner(i)] \o Channel(partner(i))

C28_Witness ==
    \E i \in VM :
        /\ received[i] # <<>> /\ queue[i] # <<>> /\ feeder[partner(i)] # <<>>
        /\ queue[partner(i)] # <<>>
        /\ sent[partner(i)] # sent[i]

\* instance i has acquired the permit and not released it
Holds(i) == pc[i] \in {"get", "timedout"}

(* C29: the semaphore's count is always 0 or 1, it is 0 exactly when one   *)
(* instance holds the permit and never do both hold it, at most one        *)
(* instance is inside queue.get, and the count is raised only by the       *)
(* instance that holds the permit.                                         *)
C29_PermitMutex ==
    /\ [](/\ lock \in {0, 1}
          /\ Cardinality({i \in VM : Holds(i)}) = 1 - lock
          /\ Cardinality({i \in VM : pc[i] = "get"}) <= 1)
    /\ [][lock' > lock =>
            \E i \in VM : Holds(i) /\ pc[i] = "get" /\ pc'[i] = "loop"]_vars

C29_Witness ==
    \E i \in VM :
        /\ pc[i] = "get" /\ received[i] # <<>>
        /\ AtFetch(partner(i)) /\ Instr(partner(i)).op = "rcv"
        /\ received[partner(i)] # <<>>
        /\ lock = 0

(* C30: an instance that stopped because its get timed out keeps the      *)
(* permit for good: the count stays 0, the partner never again gets into   *)
(* queue.get, and a partner that is at a rcv stops there (QUIT), also with *)
(* values in its inbound queue.                                            *)
C30_PermitLeak ==
    /\ [](\A i \in VM : pc[i] = "timedout" => lock = 0)
    /\ [][\A i \in VM :
            pc[i] = "timedout" =>
                /\ pc'[i] = "timedout"
                /\ pc'[partner(i)] # "get"
                /\ received'[partner(i)] = received[partner(i)]]_vars
    /\ \A i \in VM :
            (/\ pc[i] = "timedout"
             /\ AtFetch(partner(i)) /\ Instr(partner(i)).op = "rcv")
                ~> (pc[partner(i)] = "quit")

C30_Witness ==
    \E i \in VM :
        /\ pc[i] = "timedout" /\ pc[partner(i)] = "quit"
        /\ queue[partner(i)] # <<>>
        /\ received[partner(i)] = <<>>
        /\ Returned

\* the ip instance i reported: still in its result pipe, or already taken
\* by the coordinator
ReportedIp(i) == IF pipe[i] # <<>> THEN Head(pipe[i]).ip ELSE vm[i].ip

(* C31: when a dual instance has stopped and reported, the ip it reported  *)
(* is outside the program or is the index of a rcv instruction.            *)
C31_StopsOnlyAtRcvOrOutside ==
    \A i \in VM :
        Stopped(i) =>
            \/ ~Inside(ReportedIp(i))
            \/ program[ReportedIp(i) + 1].op = "rcv"

C31_Witness ==
    /\ Returned
    /\ \E i \in VM :
        /\ pc[i] = "quit" /\ vm[i].ip = 1 /\ program[2].op = "rcv"
        /\ pc[partner(i)] = "halted" /\ vm[partner(i)].ip = Len(program)
        /\ Len(program) = 3

(* C32: mod x y with value(y) > 0 stores in x a value from 0 to y - 1 that *)
(* differs from the old x by a multiple of y, also for a negative x:       *)
(* x = -7 and y = 5 give 3.  In dual and in single mode.                   *)
C32_FlooredMod ==
    [][/\ \A i \in VM :
            (AtFetch(i) /\ Instr(i).op = "mod" /\ WellCalled(Instr(i))
                /\ fet(regs[i], Instr(i).args[2]) > 0 /\ ip'[i] # ip[i]) =>
                LET x == Instr(i).args[1].name
                    y == fet(regs[i], Instr(i).args[2])
                    old == RegGet(regs[i], x)
                IN  /\ 0 <= regs'[i][x] /\ regs'[i][x] < y
                    /\ (regs'[i][x] - old) % y = 0
                    /\ (old = -7 /\ y = 5) => regs'[i][x] = 3
       /\ (BadAtFetch /\ BadInstr.op = "mod" /\ WellCalled(BadInstr)
                /\ fet(bad.regs, BadInstr.args[2]) > 0 /\ bad'.ip # bad.ip) =>
                LET x == BadInstr.args[1].name
                    y == fet(bad.regs, BadInstr.args[2])
                    old == RegGet(bad.regs, x)
                IN  /\ 0 <= bad'.regs[x] /\ bad'.regs[x] < y
                    /\ (bad'.regs[x] - old) % y = 0
                    /\ (old = -7 /\ y = 5) => bad'.regs[x] = 3]_vars

C32_Witness ==
    /\ bad.pc = "run" /\ bad.ip = 5
    /\ program[5] = I2("mod", Reg("a"), Lit(5)) /\ program[4].args[2].val = -7
    /\ bad.regs["a"] = 3

(* C33: part1 returns a value only from a rcv with a nonzero operand that  *)
(* comes after some snd, and the value is the one played last; when ip     *)
(* leaves the program the run ends without a value; a rcv with a nonzero   *)
(* operand before any snd ends the run with an error and no value.         *)
C33_SingleOutcomes ==
    /\ [](/\ bad.pc = "returned" =>
                /\ bad.played # <<>> /\ bad.ret = <<LastPlayed>>
                /\ Inside(bad.ip) /\ BadInstr.op = "rcv"
                /\ fet(bad.regs, BadInstr.args[1]) # 0
          /\ bad.pc = "ended" => (bad.ret = <<>> /\ ~Inside(bad.ip))
          /\ bad.pc = "error" => bad.ret = <<>>)
    /\ [][(BadRcvStep /\ fet(bad.regs, BadInstr.args[1]) # 0
                /\ bad.played = <<>>) =>
            (bad'.pc = "error" /\ bad'.ret = <<>>)]_vars

C33_Witness ==
    /\ bad.pc = "error" /\ bad.played = <<>>
    /\ bad.ip = 1 /\ BadInstr.op = "rcv" /\ bad.regs["a"] = 2
    /\ Len(program) = 3 /\ program[3].op = "snd"

----------------------------------------------------------------------------
(* The single machine and the dual run on the same program, side by side,  *)
(* for programs without snd and rcv.                                       *)

NoSndRcv(prog) == \A k \in 1..Len(prog) : prog[k].op \notin {"snd", "rcv"}

PairHandpicked ==
    { \* a loop that counts down
      <<I2("set", Reg("a"), Lit(3)), I2("mul", Reg("a"), Reg("a")),
        I2("mod", Reg("a"), Lit(5)), I2("add", Reg("a"), Lit(-1)),
        I2("jgz", Reg("a"), Lit(-1)), I2("set", Reg("b"), Reg("a"))>>,
      \* jumps forward and backward past the start
      <<I2("jgz", Lit(1), Lit(2)), I2("jgz", Lit(1), Lit(-5)),
        I2("set", Reg("a"), Lit(-7)), I2("mod", Reg("a"), Lit(5)),
        I2("jgz", Reg("a"), Lit(-3))>>,
      \* a fault after some arithmetic
      <<I2("set", Reg("a"), Lit(2)), I2("mul", Reg("b"), Reg("a")),
        I2("mod", Reg("a"), Reg("b"))>> }

PairPrograms == {prog \in Programs : NoSndRcv(prog)} \cup PairHandpicked

\* part1 and part2 on the same parsed program
PairInit ==
    /\ program \in PairPrograms
    /\ NewCoordinator("start0")
    /\ NewBadDuetVM("run")
    /\ NoParser
    /\ prev = <<>>
    /\ NoOtherDays

\* the steps of DuetVM.execute and BadDuetVM.execute on such a program
PairNext ==
    \/ \E i \in VM :
            \/ ExecSet(i) \/ ExecAdd(i) \/ ExecMul(i) \/ ExecMod(i)
            \/ ExecModZero(i) \/ ExecJgz(i) \/ ExecTypeError(i) \/ Halt(i)
    \/ run
    \/ part2
    \/ BadSet \/ BadAdd \/ BadMul \/ BadMod \/ BadModZero \/ BadJgz
    \/ BadTypeError \/ BadEnd

PairSpec == PairInit /\ [][PairNext]_vars

\* the method of the instruction at ip k raises (TypeError or
\* ZeroDivisionError) on registers r
Raises(k, r) ==
    LET ins == program[k + 1] IN
        \/ ~WellCalled(ins)
        \/ ins.op = "mod" /\ fet(r, ins.args[2]) = 0

\* <<ip, registers>> after the method of the instruction at ip k was called
\* on registers r and 1 was added to ip
MethodThenNext(k, r) ==
    LET ins == program[k + 1]
        x == ins.args[1]
        y == ins.args[2]
    IN  CASE ins.op = "set" -> <<k + 1, set(r, x, y)>>
          [] ins.op = "add" -> <<k + 1, add(r, x, y)>>
          [] ins.op = "mul" -> <<k + 1, mul(r, x, y)>>
          [] ins.op = "mod" -> <<k + 1, mod(r, x, y)>>
          [] ins.op = "jgz" -> <<jgz(r, k, x, y) + 1, r>>

(* C34: on a program without snd and rcv each dual instance and the single *)
(* machine go from the same (ip, registers) to the same next (ip,          *)
(* registers), stop on the same condition, and end with the same ip and    *)
(* registers.                                                              *)
C34_SameArithmeticAndJumps ==
    /\ [](\A i \in VM :
            /\ (pc[i] \in {"halted", "crashed"} /\ bad.pc \in {"ended", "error"}) =>
                    /\ ip[i] = bad.ip /\ regs[i] = bad.regs
                    /\ ((pc[i] = "halted") <=> (bad.pc = "ended"))
            /\ pc[i] = "halted" => ~Inside(ip[i])
            /\ pc[i] = "crashed" => (Inside(ip[i]) /\ Raises(ip[i], regs[i])))
    /\ [](/\ bad.pc = "ended" => ~Inside(bad.ip)
          /\ bad.pc = "error" => (Inside(bad.ip) /\ Raises(bad.ip, bad.regs)))
    /\ [][/\ \A i \in VM :
                (<<ip[i], regs[i]>>' # <<ip[i], regs[i]>>) =>
                    /\ Inside(ip[i]) /\ ~Raises(ip[i], regs[i])
                    /\ <<ip[i], regs[i]>>' = MethodThenNext(ip[i], regs[i])
          /\ (<<bad.ip, bad.regs>>' # <<bad.ip, bad.regs>>) =>
                    /\ Inside(bad.ip) /\ ~Raises(bad.ip, bad.regs)
                    /\ <<bad.ip, bad.regs>>' = MethodThenNext(bad.ip, bad.regs)]_vars

C34_Witness ==
    /\ Len(program) = 6
    /\ bad.pc = "ended" /\ bad.ip = 6 /\ bad.regs["b"] = 0
    /\ \A i \in VM : pc[i] = "halted" /\ ip[i] = 6 /\ regs[i] = bad.regs
    /\ Returned

-----------------------------------------------------------------------------
(* Day 13 "Packet Scanners" (src/solvers/day13.py).  A Firewall is a dict  *)
(* of layers keyed by depth, with num_layers one more than the greatest    *)
(* depth.  The methods step the scanners in place, so each of them is an   *)
(* operator from the object to the object it leaves behind and the value   *)
(* it returns.                                                             *)

MaxDepth == 2

MaxRange == 3

\* part2's limit parameter (int(1e7) by default), the number of delays tried
limit == 6

Max(S) == CHOOSE m \in S : \A k \in S : k <= m

\* Firewall.Layer.__init__
Layer(depth, range_) == [depth |-> depth, range |-> range_, dir |-> 1, pos |-> 0]

\* Firewall.__init__
Firewall(layers) ==
    [layers |-> layers,
     num_layers |-> IF DOMAIN layers = {} THEN 0 ELSE Max(DOMAIN layers) + 1]

\* Firewall.parse_layers on lines "depth: range", one line for each depth of
\* the set D
parse_layers(D, range_) == Firewall([k \in D |-> Layer(k, range_[k])])

Firewalls ==
    UNION {{parse_layers(D, r) : r \in [D -> 1..MaxRange]} :
                D \in SUBSET (0..MaxDepth)}

\* Firewall.reset
reset(f) ==
    [f EXCEPT !.layers = [k \in DOMAIN @ |-> [@[k] EXCEPT !.pos = 0, !.dir = 1]]]

\* the body of the loop of step_scanners, for one layer
step_layer(layer) ==
    IF layer.range = 1 THEN layer
    ELSE LET p == layer.pos + layer.dir
         IN  [layer EXCEPT
                !.pos = p,
                !.dir = IF layer.dir = 1 /\ p = layer.range - 1 THEN -1
                        ELSE IF layer.dir = -1 /\ p = 0 THEN 1
                        ELSE @]

\* Firewall.step_scanners
step_scanners(f) ==
    [f EXCEPT !.layers = [k \in DOMAIN @ |-> step_layer(@[k])]]

\* for _ in range(delay): self.step_scanners()
RECURSIVE StepTimes(_, _)
StepTimes(f, n) == IF n <= 0 THEN f ELSE StepTimes(step_scanners(f), n - 1)

\* the loop of send_packet over the layers i, i + 1, ..., num_layers - 1
RECURSIVE SendLoop(_, _, _, _)
SendLoop(f, i, caught_on, total_sev) ==
    IF i >= f.num_layers
    THEN [firewall |-> f, caught_on |-> caught_on, total_sev |-> total_sev]
    ELSE LET hit == i \in DOMAIN f.layers /\ f.layers[i].pos = 0
         IN  SendLoop(step_scanners(f), i + 1,
                      IF hit THEN Append(caught_on, i) ELSE caught_on,
                      IF hit THEN total_sev + i * f.layers[i].range
                             ELSE total_sev)

\* Firewall.send_packet
send_packet(f, delay) == SendLoop(StepTimes(f, delay), 0, <<>>, 0)

\* is_caught deciding by the severity of the trip
is_caughtBySeverity(f, delay) ==
    LET s == send_packet(f, delay)
    IN  [firewall |-> s.firewall, ret |-> s.total_sev > 0]

\* the loop of is_caught over the layers i, i + 1, ..., num_layers - 1
RECURSIVE CaughtLoop(_, _)
CaughtLoop(f, i) ==
    IF i >= f.num_layers THEN [firewall |-> f, ret |-> FALSE]
    ELSE IF i \in DOMAIN f.layers /\ f.layers[i].pos = 0
         THEN [firewall |-> f, ret |-> TRUE]
         ELSE CaughtLoop(step_scanners(f), i + 1)

\* Firewall.is_caught
is_caught(f, delay) == CaughtLoop(StepTimes(f, delay), 0)

\* part2 has parsed its input lines
Day13Init ==
    /\ program = <<>>
    /\ NewCoordinator("off")
    /\ NewBadDuetVM("off")
    /\ NoParser
    /\ prev = <<>>
    /\ firewall \in Firewalls
    /\ day13 = [pc |-> "part2", delay |-> 0, n |-> 0, ret |-> -1]
    /\ banks = <<>>
    /\ day6 = [pc |-> "off", input |-> <<>>, states |-> {}, count |-> 0,
               step_count |-> 0, ret |-> 0]

\* part2: firewall.step_scanners(); delay = 1
Day13Begin ==
    /\ day13.pc = "part2"
    /\ firewall' = step_scanners(firewall)
    /\ day13' = [day13 EXCEPT !.pc = "loop", !.delay = 1]
    /\ UNCHANGED <<program, dualVars, bad, parser, prev, banks, day6>>

\* part2, one turn of the loop in which the packet is caught: the firewall
\* is put back to the checkpoint and stepped once
Day13Caught ==
    /\ day13.pc = "loop" /\ day13.n < limit
    /\ is_caught(firewall, 0).ret
    /\ firewall' = step_scanners(firewall)
    /\ day13' = [day13 EXCEPT !.delay = @ + 1, !.n = @ + 1]
    /\ UNCHANGED <<program, dualVars, bad, parser, prev, banks, day6>>

\* part2, the turn of the loop in which the packet is not caught: delay is
\* returned
Day13Return ==
    /\ day13.pc = "loop" /\ day13.n < limit
    /\ ~is_caught(firewall, 0).ret
    /\ firewall' = is_caught(firewall, 0).firewall
    /\ day13' = [day13 EXCEPT !.pc = "done", !.ret = day13.delay]
    /\ UNCHANGED <<program, dualVars, bad, parser, prev, banks, day6>>

\* part2: the loop ran limit times and "Limit reached!" is returned
Day13LimitReached ==
    /\ day13.pc = "loop" /\ day13.n = limit
    /\ day13' = [day13 EXCEPT !.pc = "limit"]
    /\ UNCHANGED <<program, dualVars, bad, parser, prev, banks, day6, firewall>>

Day13Next == Day13Begin \/ Day13Caught \/ Day13Return \/ Day13LimitReached

Day13Spec == Day13Init /\ [][Day13Next]_vars

\* the packet, sent after delay picoseconds into the firewall as parsed,
\* enters a layer while that layer's scanner is at position 0
EntersAtZero(f, delay) ==
    \E k \in DOMAIN f.layers :
        StepTimes(reset(f), delay + k).layers[k].pos = 0

\* [C35] When part2 returns, it returns the fewest delay d >= 0 with which
\* the packet crosses the firewall without entering a layer whose scanner is
\* at position 0.
C35_FewestDelay ==
    \A d \in 0..limit :
        (/\ day13.pc = "done"
         /\ ~EntersAtZero(firewall, d)
         /\ \A e \in 0..(d - 1) : EntersAtZero(firewall, e)) =>
            day13.ret = d

-----------------------------------------------------------------------------
(* Day 13: the methods of a Firewall object called in any order.  day13.pc *)
(* names the last method called, day13.delay its delay argument and        *)
(* day13.ret what it returned.                                             *)

MaxDelay == 2

Delays == 0..MaxDelay

Methods == {"parse_layers", "step_scanners", "send_packet", "is_caught"}

FirewallInit ==
    /\ program = <<>>
    /\ NewCoordinator("off")
    /\ NewBadDuetVM("off")
    /\ NoParser
    /\ prev = <<>>
    /\ firewall \in Firewalls
    /\ day13 = [pc |-> "parse_layers", delay |-> 0, n |-> 0, ret |-> -1]
    /\ banks = <<>>
    /\ day6 = [pc |-> "off", input |-> <<>>, states |-> {}, count |-> 0,
               step_count |-> 0, ret |-> 0]

\* firewall.step_scanners()
CallStepScanners ==
    /\ day13.pc \in Methods
    /\ firewall' = step_scanners(firewall)
    /\ day13' = [day13 EXCEPT !.pc = "step_scanners", !.delay = 0, !.ret = -1]
    /\ UNCHANGED <<program, dualVars, bad, parser, prev, banks, day6>>

\* firewall.send_packet(delay)
CallSendPacket(delay) ==
    /\ day13.pc \in Methods
    /\ firewall' = send_packet(firewall, delay).firewall
    /\ day13' = [day13 EXCEPT
                   !.pc = "send_packet", !.delay = delay,
                   !.ret = <<send_packet(firewall, delay).caught_on,
                             send_packet(firewall, delay).total_sev>>]
    /\ UNCHANGED <<program, dualVars, bad, parser, prev, banks, day6>>

\* firewall.is_caught(delay)
CallIsCaught(delay) ==
    /\ day13.pc \in Methods
    /\ firewall' = is_caught(firewall, delay).firewall
    /\ day13' = [day13 EXCEPT
                   !.pc = "is_caught", !.delay = delay,
                   !.ret = is_caught(firewall, delay).ret]
    /\ UNCHANGED <<program, dualVars, bad, parser, prev, banks, day6>>

FirewallNext ==
    \/ CallStepScanners
    \/ \E delay \in Delays : CallSendPacket(delay)
    \/ \E delay \in Delays : CallIsCaught(delay)

FirewallSpec == FirewallInit /\ [][FirewallNext]_vars

\* [C36] Called with a delay on a firewall in some scanner state, is_caught
\* returns True exactly when send_packet, called with the same delay on a
\* firewall in the same scanner state, returns a non-empty list of layers
\* caught on; this includes being caught at depth 0 only, where the
\* severity returned by send_packet is 0.
C36_IsCaughtIsSendPacket ==
    [][\A delay \in Delays :
            CallIsCaught(delay) =>
                (day13'.ret = TRUE <=>
                    send_packet(firewall, delay).caught_on # <<>>)]_vars

\* is_caught(1) has returned True at depth 0 of a firewall of three layers:
\* send_packet from the scanner state it stopped in is caught on layer 0
\* only, with severity 0
C36_Witness ==
    /\ day13.pc = "is_caught" /\ day13.delay = 1 /\ day13.ret = TRUE
    /\ firewall.num_layers = 3
    /\ DOMAIN firewall.layers = {0, 2}
    /\ send_packet(firewall, 0).caught_on = <<0>>
    /\ send_packet(firewall, 0).total_sev = 0

-----------------------------------------------------------------------------
(* Day 6 "Memory Reallocation" (src/solvers/day6.py).  banks is the numpy  *)
(* array of block counts, indexed from 0 as in the code.                   *)

MaxBanks == 3

MaxBlocks == 3

\* the example of the docstring: 0 2 7 0
Day6Example == [j \in 0..3 |-> <<0, 2, 7, 0>>[j + 1]]

\* what the first input line is parsed to
Day6Inputs ==
    UNION {[0..(n - 1) -> 0..MaxBlocks] : n \in 1..MaxBanks} \cup {Day6Example}

nbanks(b) == Cardinality(DOMAIN b)

\* the index of the last greatest element
argmaxLast(b) ==
    CHOOSE i \in DOMAIN b :
        /\ \A j \in DOMAIN b : b[j] <= b[i]
        /\ \A j \in DOMAIN b : j > i => b[j] < b[i]

\* np.argmax: the index of the first greatest element
argmax(b) ==
    CHOOSE i \in DOMAIN b :
        /\ \A j \in DOMAIN b : b[j] <= b[i]
        /\ \A j \in DOMAIN b : j < i => b[j] < b[i]

\* one redistribution cycle, the body of part1's loop and part2's realloc
realloc(b) ==
    LET mi == argmax(b)
        div == b[mi] \div nbanks(b)
        rem == b[mi] % nbanks(b)
    IN  [j \in DOMAIN b |->
            (IF j = mi THEN 0 ELSE b[j]) + div
            + (IF \E off \in 1..rem : (mi + off) % nbanks(b) = j THEN 1 ELSE 0)]

NewDay6(p, b) ==
    day6 = [pc |-> p, input |-> b,
            states |-> IF p = "part1" THEN {b} ELSE {},
            count |-> 0, step_count |-> 0, ret |-> 0]

\* part1 or part2 has parsed its input
Day6Init ==
    /\ program = <<>>
    /\ NewCoordinator("off")
    /\ NewBadDuetVM("off")
    /\ NoParser
    /\ prev = <<>>
    /\ firewall = [layers |-> <<>>, num_layers |-> 0]
    /\ day13 = [pc |-> "off", delay |-> 0, n |-> 0, ret |-> -1]
    /\ banks \in Day6Inputs
    /\ \E p \in {"part1", "part2"} : NewDay6(p, banks)

\* part1: one turn of the while loop; it returns step_count when the new
\* configuration is in prev_states
Day6Part1Cycle ==
    /\ day6.pc = "part1"
    /\ banks' = realloc(banks)
    /\ day6' = IF banks' \in day6.states
               THEN [day6 EXCEPT !.step_count = @ + 1, !.pc = "done1",
                                 !.ret = day6.step_count + 1]
               ELSE [day6 EXCEPT !.step_count = @ + 1,
                                 !.states = @ \cup {banks'}]
    /\ UNCHANGED <<program, dualVars, bad, parser, prev, firewall, day13>>

\* part2, detect_cycle: one turn of the while loop, in the first call
\* (pc "part2") or in the second (pc "loop")
Day6Detect ==
    /\ day6.pc \in {"part2", "loop"}
    /\ banks \notin day6.states
    /\ banks' = realloc(banks)
    /\ day6' = [day6 EXCEPT !.count = @ + 1, !.states = @ \cup {banks}]
    /\ UNCHANGED <<program, dualVars, bad, parser, prev, firewall, day13>>

\* part2: the first detect_cycle returns (step_count, banks) and the second
\* is called on banks
Day6DetectAgain ==
    /\ day6.pc = "part2"
    /\ banks \in day6.states
    /\ day6' = [day6 EXCEPT !.pc = "loop", !.step_count = day6.count,
                            !.count = 0, !.states = {}]
    /\ UNCHANGED <<program, dualVars, bad, parser, prev, firewall, day13, banks>>

\* part2: the second detect_cycle returns and loop_count is returned
Day6Part2Return ==
    /\ day6.pc = "loop"
    /\ banks \in day6.states
    /\ day6' = [day6 EXCEPT !.pc = "done2", !.ret = day6.count]
    /\ UNCHANGED <<program, dualVars, bad, parser, prev, firewall, day13, banks>>

Day6Next ==
    Day6Part1Cycle \/ Day6Detect \/ Day6DetectAgain \/ Day6Part2Return

Day6Spec == Day6Init /\ [][Day6Next]_vars

\* the configuration after n redistribution cycles from b
RECURSIVE Cycles(_, _)
Cycles(b, n) == IF n = 0 THEN b ELSE realloc(Cycles(b, n - 1))

\* the configuration produced by the n-th cycle from b was seen before
SeenBefore(b, n) == \E m \in 0..(n - 1) : Cycles(b, m) = Cycles(b, n)

\* n is the number of cycles from b until a configuration is produced that
\* was seen before
CyclesUntilSeen(b, n) ==
    n >= 1 /\ SeenBefore(b, n) /\ \A m \in 1..(n - 1) : ~SeenBefore(b, m)

\* p is the number of cycles from c until c is seen again
LoopLength(c, p) ==
    p >= 1 /\ Cycles(c, p) = c /\ \A q \in 1..(p - 1) : Cycles(c, q) # c

\* the blocks are inserted one at a time into the banks at, at + 1, ...,
\* wrapping around after the last bank
RECURSIVE Spread(_, _, _)
Spread(b, at, blocks) ==
    IF blocks = 0 THEN b
    ELSE Spread([b EXCEPT ![at] = @ + 1], (at + 1) % nbanks(b), blocks - 1)

\* mi is the lowest-indexed bank among those with the most blocks
LowestWithMost(b, mi) ==
    /\ \A j \in DOMAIN b : b[j] <= b[mi]
    /\ \A j \in DOMAIN b : b[j] = b[mi] => mi <= j

\* [C37] part1 returns the number of redistribution cycles performed until
\* a configuration is produced that was seen before; part2 returns the
\* length of the loop, the number of cycles from that repeated configuration
\* until it is seen again (5 and 4 for the banks 0 2 7 0); and every cycle
\* empties the lowest-indexed bank among those with the most blocks and
\* hands its blocks out one by one to the banks after it.
C37_CyclesAndLoop ==
    /\ [](day6.pc = "done1" => CyclesUntilSeen(day6.input, day6.ret))
    /\ [](day6.pc = "done2" =>
            /\ CyclesUntilSeen(day6.input, day6.step_count)
            /\ LoopLength(Cycles(day6.input, day6.step_count), day6.ret))
    /\ []((day6.input = Day6Example /\ day6.pc = "done1") => day6.ret = 5)
    /\ []((day6.input = Day6Example /\ day6.pc = "done2") => day6.ret = 4)
    /\ [][(Day6Part1Cycle \/ Day6Detect) =>
            \E mi \in DOMAIN banks :
                /\ LowestWithMost(banks, mi)
                /\ banks' = Spread([banks EXCEPT ![mi] = 0],
                                   (mi + 1) % nbanks(banks), banks[mi])]_vars

\* part2 has returned 4 for the banks 0 2 7 0, back at 2 4 1 2 after five
\* cycles to the first repeat and four more around the loop
C37_Witness ==
    /\ day6.input = Day6Example
    /\ day6.pc = "done2" /\ day6.ret = 4 /\ day6.step_count = 5
    /\ banks = [j \in 0..3 |-> <<2, 4, 1, 2>>[j + 1]]

====
